---------------------------- MODULE Spec2Model ----------------------------
(***************************************************************************)
(* A model of enum_strings.h: the ENUM_STRINGS registration macro, the     *)
(* conversions to_string / from_string / get_strings / num_values, the     *)
(* generated stream operators, and the callers of test.cpp.                *)
(*                                                                         *)
(* A std::string or C string is a sequence of one-character strings.  A    *)
(* value of an enumeration type E is the integer of its underlying type.   *)
(***************************************************************************)
EXTENDS Integers, Sequences, FiniteSets, TLC

\* ------------------------------------------------------------------ bounds

\* Longest label list (__VA_ARGS__) a declaration of the model supplies.
MaxLabels == 3

\* Values handed to to_string lie in -MaxValue..MaxValue (and in the range of E).
MaxValue == 4

\* Longest content of the caller's std::stringstream.
MaxStream == 3

\* ----------------------------------------------------------------- strings

\* The characters of the model: two letters differing only in case, a blank.
Chars == {"a", "A", " "}

\* std::isspace in the classic locale, on the characters of the model.
IsSpace(c) == c \in {" ", "\t", "\n", "\r"}

\* The label literals a declaration chooses from: the empty string, two
\* labels differing only in case, a label holding a blank.
LabelUniverse == {<< >>, <<"a">>, <<"A">>, <<"a", " ", "A">>}

\* Strings handed to from_string: every label literal and one that is none.
ProbeStrings == LabelUniverse \cup {<<"A", "a">>}

\* What an out-of-bounds read of the table may yield as a string.
Garbage == {<<"a">>, <<"?">>}

SeqsUpTo(S, n) == UNION {[1..k -> S] : k \in 1..n}

\* s occurs in msg as a contiguous substring.
Contains(msg, s) ==
  \E i \in 0..(Len(msg) - Len(s)) : SubSeq(msg, i + 1, i + Len(s)) = s

Digits == <<"0", "1", "2", "3", "4", "5", "6", "7", "8", "9">>

RECURSIVE DecNat(_)
DecNat(n) == IF n < 10 THEN <<Digits[n + 1]>>
             ELSE DecNat(n \div 10) \o <<Digits[(n % 10) + 1]>>

\* std::to_string of an integer: decimal digits, a leading minus when negative.
std_to_string(n) == IF n < 0 THEN <<"-">> \o DecNat(0 - n) ELSE DecNat(n)

\* ------------------------------------------------------- underlying types

BaseTypes == {"bool", "int8_t", "uint8_t", "int16_t", "int"}

TypeMin(t) == CASE t = "bool"    -> 0
                [] t = "int8_t"  -> -128
                [] t = "uint8_t" -> 0
                [] t = "int16_t" -> -32768
                [] t = "int"     -> -2147483647 - 1

TypeMax(t) == CASE t = "bool"    -> 1
                [] t = "int8_t"  -> 127
                [] t = "uint8_t" -> 255
                [] t = "int16_t" -> 32767
                [] t = "int"     -> 2147483647

\* static_cast<base_type>(n): bool maps every nonzero value to true, the
\* narrow integer types wrap modulo 2^width, int holds every integer of the
\* model unchanged.
Cast(t, n) ==
  CASE t = "bool"    -> IF n = 0 THEN 0 ELSE 1
    [] t = "int8_t"  -> ((n + 128) % 256) - 128
    [] t = "uint8_t" -> n % 256
    [] t = "int16_t" -> ((n + 32768) % 65536) - 32768
    [] t = "int"     -> n

\* static_cast<std::size_t>(n) of a non-negative n.
CastSizeT(n) == CASE n >= 0 -> n

\* ------------------------------------------------------------ declarations

(***************************************************************************)
(* A declaration is what the translation unit writes: an enumeration with  *)
(* underlying type base and enumerators at 0..nEnum-1, followed by END (at *)
(* nEnum) when hasEND, and ENUM_STRINGS(E, args).  Every enumerator is a    *)
(* value of the underlying type, the macro gets at least one literal, and  *)
(* every label position is a value of E.  The number of labels is that of  *)
(* the enumerators or differs from it by one.                              *)
(***************************************************************************)
Declarations(bases, tables) ==
  {d \in [base : bases, nEnum : 1..(MaxLabels + 1), hasEND : BOOLEAN, args : tables] :
     /\ d.nEnum \in (Len(d.args) - 1)..(Len(d.args) + 1)
     /\ d.nEnum - 1 <= TypeMax(d.base)
     /\ d.hasEND => d.nEnum <= TypeMax(d.base)
     /\ Len(d.args) - 1 <= TypeMax(d.base)}

AllDeclarations == Declarations(BaseTypes, SeqsUpTo(LabelUniverse, MaxLabels))

\* The values of E handed to to_string.
Values(t) == {v \in (0 - MaxValue)..MaxValue : TypeMin(t) <= v /\ v <= TypeMax(t)}

\* --------------------------------------------------------- enum_strings.h

\* What a call hands back: a returned std::string (str), a returned value of
\* E (val), a returned vector (vec), a thrown std::invalid_argument with its
\* what() text, or the end of the process (crash).  reads holds the indices
\* at which the call read the label table through strings[index].
NoResult == [kind |-> "none", str |-> << >>, val |-> 0, vec |-> << >>,
             what |-> << >>, reads |-> {}]

ReturnString(s, idx) == [NoResult EXCEPT !.kind = "string", !.str = s, !.reads = idx]

ReturnValue(v) == [NoResult EXCEPT !.kind = "value", !.val = v]

ReturnVector(vv) == [NoResult EXCEPT !.kind = "vector", !.vec = vv]

Throw(msg) == [NoResult EXCEPT !.kind = "throw", !.what = msg]

Crash(idx) == [NoResult EXCEPT !.kind = "crash", !.reads = idx]

\* num_values<E>(): the extent N of the array ss[] of the registration.
num_values(strings) == Len(strings)

\* The text of the exception of to_string.
InvalidValueText(index, n) ==
  <<"I", "n", "v", "a", "l", "i", "d", " ", "v", "a", "l", "u", "e", " ">>
    \o std_to_string(index) \o <<".", " ">>
    \o <<"V", "a", "l", "i", "d", " ", "r", "a", "n", "g", "e", " ", "i", "s", " ",
         "0", ".", ".">>
    \o std_to_string(n - 1)

\* IndexRejected with the comparison off by one (> for >=).
IndexRejectedStrict(t, index, n) == index > Cast(t, n)

\* The test guarding the table read of to_string; both operands have the
\* underlying type and compare by value after integral promotion.
IndexRejected(t, index, n) == index >= Cast(t, n)

\* to_string<E>(e): the set of outcomes the call may have.  An index the
\* test lets through is read from the table; outside 0..N-1 that read is
\* undefined behaviour, which yields any string or ends the process.
to_string(t, strings, e) ==
  LET index == Cast(t, e)
      n     == num_values(strings)
  IN  IF IndexRejected(t, index, n)
      THEN {Throw(InvalidValueText(index, n))}
      ELSE IF index \in 0..(n - 1)
           THEN {ReturnString(strings[index + 1], {index})}
           ELSE {ReturnString(g, {index}) : g \in Garbage} \cup {Crash({index})}

\* The text of the exception of from_string.
InvalidLabelText(s) ==
  <<"'">> \o s \o
  <<"'", " ", "i", "s", " ", "n", "o", "t", " ", "a", " ", "v", "a", "l", "i", "d", " ",
    "s", "t", "r", "i", "n", "g", " ", "r", "e", "p", "r", "e", "s", "e", "n", "t", "a",
    "t", "i", "o", "n", " ", "o", "f", " ", "t", "h", "i", "s", " ", "t", "y", "p", "e">>

\* Scan with the loop bound off by one (n < N - 1): the last label is never
\* compared.
RECURSIVE ScanShort(_, _, _)
ScanShort(strings, s, n) ==
  IF n < num_values(strings) - 1 /\ strings[n + 1] # s
  THEN ScanShort(strings, s, n + 1)
  ELSE n

\* The loop of from_string from position n on: the first position at or
\* after n whose label equals s, or N when there is none.
RECURSIVE Scan(_, _, _)
Scan(strings, s, n) ==
  IF n < num_values(strings) /\ strings[n + 1] # s
  THEN Scan(strings, s, n + 1)
  ELSE n

\* from_string<E>(s).
from_string(t, strings, s) ==
  LET n == Scan(strings, s, 0)
  IN  IF n = num_values(strings)
      THEN Throw(InvalidLabelText(s))
      ELSE ReturnValue(Cast(t, n))

\* get_strings over an index sequence one short (make_index_sequence<N - 1>).
get_strings_short(strings) == [i \in 1..(num_values(strings) - 1) |-> strings[i]]

\* get_strings<E>(): a vector built from strings[Indices]... over
\* std::make_index_sequence<N>.
get_strings(strings) == [i \in 1..num_values(strings) |-> strings[i]]

\* check_num_values resolving to the catch-all overload though END exists.
check_num_values_ellipsis(d) == TRUE

\* detail::check_num_values<E>(0): the first overload is viable only when
\* E::END names an enumerator.
check_num_values(d) ==
  IF d.hasEND
  THEN num_values(d.args) = CastSizeT(Cast(d.base, d.nEnum))
  ELSE TRUE

\* ------------------------------------------------------------ std streams

\* A std::stringstream: its characters, the next position to read (from
\* 1), eofbit and failbit.  ntok counts the tokens extracted so far.
EmptyStream == [buf |-> << >>, gpos |-> 1, eof |-> FALSE, fail |-> FALSE, ntok |-> 0]

Good(st) == ~st.eof /\ ~st.fail

\* os << str for a std::string: appended when the stream is good; otherwise
\* nothing is written and the sentry may set failbit.
Insert(st, str) ==
  IF Good(st)
  THEN {[st EXCEPT !.buf = @ \o str]}
  ELSE {st, [st EXCEPT !.fail = TRUE]}

\* The first position at or after p holding no white space (Len + 1: none).
RECURSIVE SkipWs(_, _)
SkipWs(buf, p) ==
  IF p <= Len(buf) /\ IsSpace(buf[p]) THEN SkipWs(buf, p + 1) ELSE p

\* TokenStop reading to the end of the content, as std::getline would.
TokenStopAtEnd(buf, p) == Len(buf) + 1

\* The first position at or after p holding white space (Len + 1: none).
RECURSIVE TokenStop(_, _)
TokenStop(buf, p) ==
  IF p <= Len(buf) /\ ~IsSpace(buf[p]) THEN TokenStop(buf, p + 1) ELSE p

\* is >> s into a fresh std::string: the stream afterwards, the string, and
\* whether a token was extracted.
Extract(st) ==
  IF ~Good(st)
  THEN [st |-> [st EXCEPT !.fail = TRUE], s |-> << >>, ok |-> FALSE]
  ELSE LET p == SkipWs(st.buf, st.gpos)
       IN  IF p > Len(st.buf)
           THEN [st |-> [st EXCEPT !.gpos = p, !.eof = TRUE, !.fail = TRUE],
                 s |-> << >>, ok |-> FALSE]
           ELSE LET q == TokenStop(st.buf, p)
                IN  [st |-> [st EXCEPT !.gpos = q, !.eof = (q > Len(st.buf)),
                                       !.ntok = @ + 1],
                     s |-> SubSeq(st.buf, p, q - 1), ok |-> TRUE]

\* ------------------------------------------------------------------- state

VARIABLES
  decl,    \* the declaration of E and its ENUM_STRINGS(E, ...) line
  phase,   \* "declared", then "registered" or "rejected" (the build fails); "crashed"
  ss,      \* the array ss[] inside _get_enum_strings(E)
  stream,  \* the caller's std::stringstream
  ret      \* the last call of the caller and what it handed back

vars == <<decl, phase, ss, stream, ret>>

\* A call: the operation, its argument (arg: a value of E, sarg: a string),
\* whether the argument is what the previous call returned, whether a
\* stream read extracted a token, and the result.
Call(op, arg, sarg, chained, extracted, res) ==
  [op |-> op, arg |-> arg, sarg |-> sarg, chained |-> chained,
   extracted |-> extracted, res |-> res]

NoCall == Call("none", 0, << >>, FALSE, FALSE, NoResult)

\* The tables of the declarations the stream model starts from: distinct
\* labels, a label holding a blank beside its first word, an empty label,
\* a duplicated label.
StreamTables ==
  {<< <<"a">>, <<"A">> >>,
   << <<"a", " ", "A">>, <<"a">> >>,
   << << >>, <<"A">> >>,
   << <<"a">>, <<"a">> >>}

StreamDeclarations == Declarations({"bool", "uint8_t"}, StreamTables)

InitWith(declarations) ==
  /\ decl \in declarations
  /\ phase = "declared"
  /\ ss = << >>
  /\ stream = EmptyStream
  /\ ret = NoCall

Init == InitWith(StreamDeclarations)

InitConv == InitWith(AllDeclarations)

\* ----------------------------------------------------------------- actions

\* The ENUM_STRINGS(E, ...) line is compiled: its static_assert on
\* check_num_values<E>(0) accepts or rejects the translation unit.
Register ==
  /\ phase = "declared"
  /\ IF check_num_values(decl)
     THEN phase' = "registered" /\ ss' = decl.args
     ELSE phase' = "rejected" /\ ss' = ss
  /\ UNCHANGED <<decl, stream, ret>>

PhaseAfter(res) == IF res.kind = "crash" THEN "crashed" ELSE "registered"

\* enum_strings::to_string(e) on a value of the caller's choice.
ToStringCall ==
  /\ phase = "registered"
  /\ \E v \in Values(decl.base) : \E r \in to_string(decl.base, ss, v) :
       /\ ret' = Call("to_string", v, << >>, FALSE, FALSE, r)
       /\ phase' = PhaseAfter(r)
  /\ UNCHANGED <<decl, ss, stream>>

\* enum_strings::to_string(enum_strings::from_string<E>(s)).
ToStringOfParsed ==
  /\ phase = "registered"
  /\ ret.op = "from_string" /\ ret.res.kind = "value" /\ ~ret.chained
  /\ \E r \in to_string(decl.base, ss, ret.res.val) :
       /\ ret' = Call("to_string", ret.res.val, ret.sarg, TRUE, FALSE, r)
       /\ phase' = PhaseAfter(r)
  /\ UNCHANGED <<decl, ss, stream>>

\* enum_strings::from_string<E>(s) on a string of the caller's choice.
FromStringCall ==
  /\ phase = "registered"
  /\ \E s \in ProbeStrings :
       ret' = Call("from_string", 0, s, FALSE, FALSE, from_string(decl.base, ss, s))
  /\ UNCHANGED <<decl, phase, ss, stream>>

\* enum_strings::from_string<E>(enum_strings::to_string(e)).
FromStringOfPrinted ==
  /\ phase = "registered"
  /\ ret.op = "to_string" /\ ret.res.kind = "string" /\ ~ret.chained
  /\ ret' = Call("from_string", ret.arg, ret.res.str, TRUE, FALSE,
                 from_string(decl.base, ss, ret.res.str))
  /\ UNCHANGED <<decl, phase, ss, stream>>

\* enum_strings::get_strings<E>().
GetStringsCall ==
  /\ phase = "registered"
  /\ ret' = Call("get_strings", 0, << >>, FALSE, FALSE, ReturnVector(get_strings(ss)))
  /\ UNCHANGED <<decl, phase, ss, stream>>

\* The caller changes the vector get_strings returned: drops its last
\* element, overwrites its first, or appends one.
MutateCopy ==
  /\ phase = "registered"
  /\ ret.op = "get_strings"
  /\ \E w \in {SubSeq(ret.res.vec, 1, Len(ret.res.vec) - 1),
               [ret.res.vec EXCEPT ![1] = <<"?">>],
               Append(ret.res.vec, <<"?">>)} :
       ret' = Call("mutate", 0, << >>, FALSE, FALSE, ReturnVector(w))
  /\ UNCHANGED <<decl, phase, ss, stream>>

\* test_stream_io(e): a fresh stringstream, ss << e, E v, ss >> v,
\* assert(v == e).  The operators are those the macro generates.
StreamIO(t, strings, e) ==
  {IF w.kind # "string" THEN w
   ELSE LET x == Extract(CHOOSE st \in Insert(EmptyStream, w.str) : TRUE)
            f == from_string(t, strings, x.s)
        IN  IF f.kind # "value" THEN f
            ELSE [f EXCEPT !.kind = IF f.val = e THEN "pass" ELSE "assert_fail"]
   : w \in to_string(t, strings, e)}

test_stream_io ==
  /\ phase = "registered"
  /\ \E v \in Values(decl.base) : \E r \in StreamIO(decl.base, ss, v) :
       /\ ret' = Call("test_stream_io", v, << >>, FALSE, FALSE, r)
       /\ phase' = PhaseAfter(r)
  /\ UNCHANGED <<decl, ss, stream>>

\* operator<<(os, e) on the caller's stream: os << to_string(e).
Write ==
  /\ phase = "registered"
  /\ \E v \in Values(decl.base) : \E r \in to_string(decl.base, ss, v) :
       /\ ret' = Call("write", v, << >>, FALSE, FALSE, r)
       /\ phase' = PhaseAfter(r)
       /\ IF r.kind = "string"
          THEN /\ Len(stream.buf) + Len(r.str) <= MaxStream
               /\ stream' \in Insert(stream, r.str)
          ELSE stream' = stream
  /\ UNCHANGED <<decl, ss>>

\* The caller writes one character of its own to the stream.
PutText ==
  /\ phase = "registered"
  /\ Len(stream.buf) < MaxStream
  /\ \E c \in Chars : stream' \in Insert(stream, <<c>>)
  /\ ret' = Call("put", 0, << >>, FALSE, FALSE, NoResult)
  /\ UNCHANGED <<decl, phase, ss>>

\* operator>>(is, e) on the caller's stream: std::string s; is >> s;
\* e = from_string<E>(s).
Read ==
  /\ phase = "registered"
  /\ LET x == Extract(stream)
     IN  /\ stream' = x.st
         /\ ret' = Call("read", 0, x.s, FALSE, x.ok, from_string(decl.base, ss, x.s))
  /\ UNCHANGED <<decl, phase, ss>>

NextConv ==
  \/ Register
  \/ ToStringCall
  \/ ToStringOfParsed
  \/ FromStringCall
  \/ FromStringOfPrinted
  \/ GetStringsCall
  \/ MutateCopy
  \/ test_stream_io

NextStream ==
  \/ Register
  \/ Write
  \/ PutText
  \/ Read

Next ==
  \/ NextConv
  \/ Write
  \/ PutText
  \/ Read

\* The whole program: conversions and the caller's stream.
Spec == Init /\ [][Next]_vars

\* The caller's stream alone.
SpecStream == Init /\ [][NextStream]_vars

\* The conversions over every declaration within the bounds.
SpecConv == InitConv /\ [][NextConv]_vars

\* The conversions over the declarations that meet the conditions the header
\* states for the macro: one label per enumerator, in order; the labels are
\* moreover distinct, non-empty and free of white space.
TidyTables == {<< <<"a">> >>, << <<"A">> >>, << <<"a">>, <<"A">> >>, << <<"A">>, <<"a">> >>}

TidyDeclarations ==
  {d \in Declarations(BaseTypes, TidyTables) : d.nEnum = Len(d.args)}

InitTidy == InitWith(TidyDeclarations)

SpecTidy == InitTidy /\ [][NextConv]_vars

\* ------------------------------------------------------------ properties

count == num_values(ss)

ValidValue(v) == v \in 0..(count - 1)

Labels == {ss[i] : i \in 1..count}

\* The positions (from 0) whose label is exactly s.
Matches(s) == {n \in 0..(count - 1) : ss[n + 1] = s}

\* The white-space-delimited tokens of a content, by their first positions.
TokenStarts(buf) ==
  {i \in 1..Len(buf) : ~IsSpace(buf[i]) /\ (i = 1 \/ IsSpace(buf[i - 1]))}

KthStart(buf, k) ==
  CHOOSE i \in TokenStarts(buf) : Cardinality({j \in TokenStarts(buf) : j <= i}) = k

TokenLast(buf, i) ==
  CHOOSE j \in i..Len(buf) :
    /\ \A m \in i..j : ~IsSpace(buf[m])
    /\ j = Len(buf) \/ IsSpace(buf[j + 1])

\* C1: round trip.  to_string of a valid value v returns a string, and
\* from_string of that string returns v.
C1_RoundTrip ==
  /\ (ret.op = "to_string" /\ ~ret.chained /\ ValidValue(ret.arg))
       => ret.res.kind = "string"
  /\ (ret.op = "from_string" /\ ret.chained /\ ValidValue(ret.arg))
       => (ret.res.kind = "value" /\ ret.res.val = ret.arg)

\* C2: inverse round trip.  from_string of a label s of the table succeeds,
\* and to_string of the value it returns gives back s.
C2_InverseRoundTrip ==
  /\ (ret.op = "from_string" /\ ~ret.chained /\ ret.sarg \in Labels)
       => ret.res.kind = "value"
  /\ (ret.op = "to_string" /\ ret.chained /\ ret.sarg \in Labels)
       => (ret.res.kind = "string" /\ ret.res.str = ret.sarg)

\* C3: stream round trip.  Writing a valid value v to an empty stream and
\* reading it back into a fresh variable raises nothing and yields v.
C3_StreamRoundTrip ==
  (ret.op = "test_stream_io" /\ ValidValue(ret.arg)) => ret.res.kind = "pass"

\* C4: to_string of a value at or beyond count(E) throws without reading a
\* label, and the text names the value and the range 0..count(E)-1.
C4_OutOfRangeThrows ==
  (ret.op = "to_string" /\ ret.arg >= count) =>
     /\ ret.res.kind = "throw"
     /\ ret.res.reads = {}
     /\ Contains(ret.res.what, std_to_string(ret.arg))
     /\ Contains(ret.res.what, <<"0", ".", ".">> \o std_to_string(count - 1))

C4_Witness ==
  ret.op = "to_string" /\ ret.arg >= count /\ ret.res.kind = "throw"

\* C5: from_string(s) returns the smallest position whose label is exactly
\* s, and throws, naming s, exactly when no label is s.
C5_FirstExactMatch ==
  ret.op = "from_string" =>
     IF Matches(ret.sarg) = {}
     THEN ret.res.kind = "throw" /\ Contains(ret.res.what, ret.sarg)
     ELSE /\ ret.res.kind = "value"
          /\ ret.res.val \in Matches(ret.sarg)
          /\ \A m \in Matches(ret.sarg) : ret.res.val <= m

C5_Witness ==
  /\ ret.op = "from_string" /\ ret.res.kind = "value"
  /\ Cardinality(Matches(ret.sarg)) >= 2
  /\ <<"A">> \in Labels /\ ret.sarg = <<"a">>

\* C6: with END declared the registration is accepted exactly when the
\* number of labels is the position of END; without END it is accepted.
C6_ArityCheck ==
  phase # "declared" =>
     ((phase # "rejected") <=> (decl.hasEND => Len(decl.args) = decl.nEnum))

C6_Witness ==
  /\ phase = "rejected" /\ decl.hasEND
  /\ Len(decl.args) = decl.nEnum + 1

\* C7: whatever was called before, the table is the registered label list,
\* and get_strings returns it, in order, with count(E) elements.
C7_LabelsStable ==
  phase \in {"registered", "crashed"} =>
     /\ ss = decl.args
     /\ ret.op = "get_strings" =>
          (ret.res.vec = decl.args /\ Len(ret.res.vec) = count)

C7_Witness ==
  /\ ret.op = "get_strings" /\ Len(ret.res.vec) = 2
  /\ stream.ntok > 0 /\ stream.fail

\* C8: each stream read takes the next white-space-delimited token of the
\* content, leaves the stream just after it, assigns the value of the label
\* it equals, and throws the error of from_string when it equals none.
C8_ReadsTokenByToken ==
  ret.op = "read" =>
     /\ IF ret.extracted
        THEN /\ stream.ntok <= Cardinality(TokenStarts(stream.buf))
             /\ LET i == KthStart(stream.buf, stream.ntok)
                     j == TokenLast(stream.buf, i)
                 IN  ret.sarg = SubSeq(stream.buf, i, j) /\ stream.gpos = j + 1
        ELSE /\ stream.ntok = Cardinality(TokenStarts(stream.buf))
             /\ ret.sarg = << >>
     /\ IF Matches(ret.sarg) = {}
        THEN ret.res.kind = "throw" /\ Contains(ret.res.what, ret.sarg)
        ELSE /\ ret.res.kind = "value"
             /\ ret.res.val \in Matches(ret.sarg)
             /\ \A m \in Matches(ret.sarg) : ret.res.val <= m

C8_Witness ==
  /\ ret.op = "read" /\ ret.extracted /\ stream.ntok = 2
  /\ ret.res.kind = "value" /\ ret.res.val = 1

\* C9: to_string of a value at a position p in 0..count(E)-1 throws nothing
\* and returns the label registered at p.
C9_ValidValuePrints ==
  (ret.op = "to_string" /\ ValidValue(ret.arg)) =>
     (ret.res.kind = "string" /\ ret.res.str = ss[ret.arg + 1])

\* C10: to_string reads the table only at 0..count(E)-1, and either returns
\* a registered label or throws.
C10_NoReadOutsideTable ==
  ret.op = "to_string" =>
     /\ ret.res.reads \subseteq 0..(count - 1)
     /\ \/ ret.res.kind = "throw"
        \/ ret.res.kind = "string" /\ ret.res.str \in Labels


=============================================================================
